---- MODULE Spec2Model ----
(***************************************************************************)
(* Model of the Token-2022 parser: the CLI's two commands (cli/src/main.rs)*)
(* and the SDK functions they call (sdk/src/token_utils.rs).               *)
(*                                                                         *)
(* The remote ledger is an input of the program.  It is modelled as a      *)
(* fixed, varied function of the address (TokenAccountAt, MetadataAccountAt)*)
(* of which one scan returns a window of consecutive addresses; which      *)
(* window, and which chunk requests fail, is chosen nondeterministically.  *)
(***************************************************************************)
EXTENDS Integers, Sequences, FiniteSets, TLC

VARIABLES
    command,            \* cli.command
    pc,                 \* position of main()
    mint_accounts,      \* main: result of fetch_all_token2022_mints
    metadata_pubkeys,   \* main: the derived metadata PDAs
    futures,            \* fetch_metadata_accounts: one request per chunk
    results,            \* fetch_metadata_accounts: join_all's slot per request
    completion_order,   \* order in which the in-flight requests resolved
    metadata_accounts,  \* main: result of fetch_metadata_accounts
    metadata_out,       \* lines printed by print_metadata_results
    mints_with_exts,    \* main: result of filter_mints_with_extensions
    ext_out             \* lines printed by the extensions command

vars == <<command, pc, mint_accounts, metadata_pubkeys, futures, results,
          completion_order, metadata_accounts, metadata_out, mints_with_exts,
          ext_out>>

----------------------------------------------------------------------------
(* Bounds of the model *)

MaxN == 201         \* longest scan result
MaxLo == 2          \* largest first address of a scan window

(* Program constants *)

ChunkSize == 100    \* metadata_pubkeys.chunks(100)
ErrFill == 100      \* vec![None; 100]
MaxBumpSeed == 255  \* find_pda searches the bump seeds u8::MAX down to 0

----------------------------------------------------------------------------
(* Values *)

None == <<>>
Some(x) == <<x>>

Pubkey(a) == [kind |-> "account", id |-> a, bump |-> 0]
ProgramAddress(mint, b) == [kind |-> "pda", id |-> mint.id, bump |-> b]
SYSTEM_PROGRAM_ID == [kind |-> "system_program", id |-> 0, bump |-> 0]
TOKEN_2022_ID == [kind |-> "token_2022_program", id |-> 0, bump |-> 0]
METADATA_PROGRAM_ID == [kind |-> "metadata_program", id |-> 0, bump |-> 0]
NoKey == [kind |-> "none", id |-> 0, bump |-> 0]

Tlv(t, l, a) == [tag |-> t, length |-> l, avail |-> a]

\* Account data, by layout.  b45 is the byte at offset 45.
MintData(entries) == [layout |-> "mint", b45 |-> 1, tlv |-> entries, mint |-> NoKey]
ShortData == [layout |-> "short", b45 |-> 1, tlv |-> <<>>, mint |-> NoKey]
MetadataData(m) == [layout |-> "metadata", b45 |-> 0, tlv |-> <<>>, mint |-> m]
GarbageData == [layout |-> "garbage", b45 |-> 0, tlv |-> <<>>, mint |-> NoKey]
EmptyData == [layout |-> "empty", b45 |-> 0, tlv |-> <<>>, mint |-> NoKey]

Account(l, d, o) == [lamports |-> l, data |-> d, owner |-> o]

----------------------------------------------------------------------------
(* The ledger behind the RPC node *)

\* The Token-2022 account stored at address a.  Every one of them has byte
\* 45 equal to 1: the node applies the memcmp filter of the scan.
TokenAccountAt(a) ==
    LET k == a % 6
        d == CASE k = 0 -> MintData(<<>>)
               [] k = 1 -> MintData(<<Tlv(3, 2, 2), Tlv(7, 1, 1)>>)
               [] k = 2 -> ShortData
               [] k = 3 -> MintData(<<Tlv(3, 2, 2), Tlv(7, 4, 1)>>)
               [] k = 4 -> MintData(<<Tlv(1, 2, 2), Tlv(0, 0, 0), Tlv(6, 1, 1)>>)
               [] OTHER -> MintData(<<Tlv(6, 1, 1), Tlv(99, 1, 1)>>)
    IN Account(1, d, TOKEN_2022_ID)

\* What the node answers for one address of get_multiple_accounts.
MetadataAccountAt(key) ==
    LET k == key.id % 7
        own == Pubkey(key.id)
        other == Pubkey(key.id + 1)
    IN CASE k = 0 -> Some(Account(1, MetadataData(own), METADATA_PROGRAM_ID))
         [] k = 1 -> None
         [] k = 2 -> Some(Account(0, MetadataData(own), METADATA_PROGRAM_ID))
         [] k = 3 -> Some(Account(1, EmptyData, METADATA_PROGRAM_ID))
         [] k = 4 -> Some(Account(1, MetadataData(own), SYSTEM_PROGRAM_ID))
         [] k = 5 -> Some(Account(1, GarbageData, METADATA_PROGRAM_ID))
         [] OTHER -> Some(Account(1, MetadataData(other), METADATA_PROGRAM_ID))

\* get_program_accounts_with_config with sort_results: n accounts from
\* address lo on, in address order.
get_program_accounts(lo, n) ==
    [i \in 1..n |-> [pubkey |-> Pubkey(lo + i - 1),
                     account |-> TokenAccountAt(lo + i - 1)]]

\* get_multiple_accounts_with_config: one answer per key of the chunk.
get_multiple_accounts(chunk) ==
    [i \in 1..Len(chunk) |-> MetadataAccountAt(chunk[i])]

----------------------------------------------------------------------------
(* derive_metadata_pda *)

\* Whether the hash of (seeds, bump) is a point of the curve.  Address 0
\* stands for a mint for which every bump seed hashes onto the curve.
OnCurve(mint, b) == mint.id = 0 \/ (mint.id + b) % 3 # 0

\* The bump seeds are tried from MaxBumpSeed down to 0; the first one whose
\* hash is off the curve gives the address (k counts the seeds tried before).
try_find_program_address(mint) ==
    IF \A b \in 0..MaxBumpSeed : OnCurve(mint, b)
    THEN [found |-> FALSE, key |-> NoKey]
    ELSE LET k == CHOOSE k \in 0..MaxBumpSeed :
                     /\ ~OnCurve(mint, MaxBumpSeed - k)
                     /\ \A j \in 0..(k - 1) : OnCurve(mint, MaxBumpSeed - j)
         IN [found |-> TRUE, key |-> ProgramAddress(mint, MaxBumpSeed - k)]

find_pda(mint) == try_find_program_address(mint)

derive_metadata_pda(mint) == find_pda(mint).key

----------------------------------------------------------------------------
(* fetch_metadata_accounts *)

\* A partition that drops a trailing chunk shorter than size.
RECURSIVE chunks_exact(_, _)
chunks_exact(s, size) ==
    IF Len(s) < size THEN <<>>
    ELSE <<SubSeq(s, 1, size)>> \o chunks_exact(SubSeq(s, size + 1, Len(s)), size)

\* slice::chunks
RECURSIVE chunks(_, _)
chunks(s, size) ==
    IF Len(s) = 0 THEN <<>>
    ELSE IF Len(s) <= size THEN <<s>>
    ELSE <<SubSeq(s, 1, size)>> \o chunks(SubSeq(s, size + 1, Len(s)), size)

Pending == [status |-> "pending", value |-> <<>>]
OkResponse(v) == [status |-> "ok", value |-> v]
ErrResponse == [status |-> "err", value |-> <<>>]

\* The closure of flat_map.
FlatMapArm(res) ==
    IF res.status = "ok" THEN res.value ELSE [i \in 1..ErrFill |-> None]

RECURSIVE Concat(_, _)
Concat(rs, k) ==
    IF k > Len(rs) THEN <<>> ELSE FlatMapArm(rs[k]) \o Concat(rs, k + 1)

\* A collection that follows the order in which the requests resolved.
CollectInCompletionOrder(rs) ==
    Concat([j \in 1..Len(rs) |-> rs[completion_order[j]]], 1)

\* results.into_iter().flat_map(..).collect(): in the order of the futures.
CollectAccounts(rs) == Concat(rs, 1)

----------------------------------------------------------------------------
(* print_metadata_results *)

\* A liveness test that forgets the lamport balance.
IsDeadIgnoringLamports(account) ==
    \/ account.data.layout = "empty"
    \/ account.owner = SYSTEM_PROGRAM_ID

\* account.lamports == 0 || account.data.is_empty() || account.owner == system
IsDeadAccount(account) ==
    \/ account.lamports = 0
    \/ account.data.layout = "empty"
    \/ account.owner = SYSTEM_PROGRAM_ID

\* Metadata::safe_deserialize
safe_deserialize(data) ==
    IF data.layout = "metadata" THEN [ok |-> TRUE, mint |-> data.mint]
    ELSE [ok |-> FALSE, mint |-> NoKey]

Min(a, b) == IF a <= b THEN a ELSE b

SkipLine(pda) == [line |-> "skip", mint |-> NoKey, pda |-> pda]
PairLine(m, pda) == [line |-> "pair", mint |-> m, pda |-> pda]

\* One iteration of the for loop: the lines it prints.
PrintStep(pda, maybe_account) ==
    IF maybe_account = None THEN <<>>
    ELSE IF IsDeadAccount(maybe_account[1]) THEN <<SkipLine(pda)>>
    ELSE LET md == safe_deserialize(maybe_account[1].data)
         IN IF md.ok THEN <<PairLine(md.mint, pda)>> ELSE <<>>

\* The lines of the iterations of a loop that print, in order.
Printed(steps) ==
    LET some == SelectSeq(steps, LAMBDA st : Len(st) > 0)
    IN [j \in 1..Len(some) |-> some[j][1]]

\* for (pda, maybe_account) in keys.iter().zip(accounts.iter())
PrintLoop(keys, accounts) ==
    Printed([i \in 1..Min(Len(keys), Len(accounts)) |-> PrintStep(keys[i], accounts[i])])

print_metadata_results(keys, accounts) == PrintLoop(keys, accounts)

----------------------------------------------------------------------------
(* filter_mints_with_extensions *)

\* ExtensionType, with its Debug name.
ExtensionTypeName(t) ==
    CASE t = 1 -> "TransferFeeConfig"
      [] t = 2 -> "TransferFeeAmount"
      [] t = 3 -> "MintCloseAuthority"
      [] t = 4 -> "ConfidentialTransferMint"
      [] t = 5 -> "ConfidentialTransferAccount"
      [] t = 6 -> "DefaultAccountState"
      [] OTHER -> "ImmutableOwner"

KnownExtensionTypes == 1..7

\* StateWithExtensions::<Mint>::unpack
unpack(data) ==
    IF data.layout = "mint" /\ data.b45 = 1
    THEN [ok |-> TRUE, tlv |-> data.tlv]
    ELSE [ok |-> FALSE, tlv |-> <<>>]

RECURSIVE TlvWalk(_, _, _)
TlvWalk(tlv, i, acc) ==
    IF i > Len(tlv) THEN [ok |-> TRUE, types |-> acc]
    ELSE IF tlv[i].tag = 0 THEN [ok |-> TRUE, types |-> acc]
    ELSE IF tlv[i].tag \notin KnownExtensionTypes THEN [ok |-> FALSE, types |-> <<>>]
    ELSE IF tlv[i].avail < tlv[i].length THEN [ok |-> FALSE, types |-> <<>>]
    ELSE TlvWalk(tlv, i + 1, Append(acc, tlv[i].tag))

get_extension_types(state) == TlvWalk(state.tlv, 1, <<>>)

\* state.get_extension_types().unwrap_or_default()
ExtensionsOf(state) ==
    LET r == get_extension_types(state) IN IF r.ok THEN r.types ELSE <<>>

\* A filter that keeps every record that unpacks.
KeepsRecordAny(data) == unpack(data).ok

\* The two conditions under which the loop pushes an entry.
KeepsRecord(data) ==
    unpack(data).ok /\ Len(ExtensionsOf(unpack(data))) > 0

ExtEntry(rec) ==
    LET extensions == ExtensionsOf(unpack(rec.account.data))
    IN [mint |-> rec.pubkey,
        names |-> [j \in 1..Len(extensions) |-> ExtensionTypeName(extensions[j])]]

\* for (pubkey, account) in accounts { .. results.push(..) }
FilterLoop(accounts) ==
    LET kept == SelectSeq(accounts, LAMBDA rec : KeepsRecord(rec.account.data))
    IN [j \in 1..Len(kept) |-> ExtEntry(kept[j])]

filter_mints_with_extensions(accounts) == FilterLoop(accounts)

----------------------------------------------------------------------------
(* main *)

Init ==
    /\ command \in {"GetTokensWithMetadataAccount", "GetTokensWithExtensions"}
    /\ pc = "start"
    /\ mint_accounts = <<>>
    /\ metadata_pubkeys = <<>>
    /\ futures = <<>>
    /\ results = <<>>
    /\ completion_order = <<>>
    /\ metadata_accounts = <<>>
    /\ metadata_out = <<>>
    /\ mints_with_exts = <<>>
    /\ ext_out = <<>>

\* fetch_all_token2022_mints(&rpc).await? -- the scan succeeds
ScanOk ==
    /\ pc = "start"
    /\ \E lo \in 0..MaxLo, n \in 0..MaxN :
          mint_accounts' = get_program_accounts(lo, n)
    /\ pc' = "scanned"
    /\ UNCHANGED <<command, metadata_pubkeys, futures, results, completion_order,
                   metadata_accounts, metadata_out, mints_with_exts, ext_out>>

\* fetch_all_token2022_mints(&rpc).await? -- the scan fails, main returns Err
ScanErr ==
    /\ pc = "start"
    /\ pc' = "failed"
    /\ UNCHANGED <<command, mint_accounts, metadata_pubkeys, futures, results,
                   completion_order, metadata_accounts, metadata_out,
                   mints_with_exts, ext_out>>

AllBumpsFound ==
    \A i \in 1..Len(mint_accounts) : find_pda(mint_accounts[i].pubkey).found

\* mint_accounts.iter().map(derive_metadata_pda).collect()
DerivePdas ==
    /\ pc = "scanned"
    /\ command = "GetTokensWithMetadataAccount"
    /\ AllBumpsFound
    /\ metadata_pubkeys' =
          [i \in 1..Len(mint_accounts) |-> derive_metadata_pda(mint_accounts[i].pubkey)]
    /\ pc' = "derived"
    /\ UNCHANGED <<command, mint_accounts, futures, results, completion_order,
                   metadata_accounts, metadata_out, mints_with_exts, ext_out>>

\* find_pda panics when the bump seeds are exhausted: the process aborts
DerivePanic ==
    /\ pc = "scanned"
    /\ command = "GetTokensWithMetadataAccount"
    /\ ~AllBumpsFound
    /\ pc' = "panicked"
    /\ UNCHANGED <<command, mint_accounts, metadata_pubkeys, futures, results,
                   completion_order, metadata_accounts, metadata_out,
                   mints_with_exts, ext_out>>

\* fetch_metadata_accounts up to join_all: one request per chunk is in flight
IssueRequests ==
    /\ pc = "derived"
    /\ futures' = chunks(metadata_pubkeys, ChunkSize)
    /\ results' = [k \in 1..Len(futures') |-> Pending]
    /\ completion_order' = <<>>
    /\ pc' = "joining"
    /\ UNCHANGED <<command, mint_accounts, metadata_pubkeys, metadata_accounts,
                   metadata_out, mints_with_exts, ext_out>>

\* one in-flight request resolves to Ok(response)
ChunkOk(k) ==
    /\ pc = "joining"
    /\ results[k] = Pending
    /\ results' = [results EXCEPT ![k] = OkResponse(get_multiple_accounts(futures[k]))]
    /\ completion_order' = Append(completion_order, k)
    /\ UNCHANGED <<command, pc, mint_accounts, metadata_pubkeys, futures,
                   metadata_accounts, metadata_out, mints_with_exts, ext_out>>

\* one in-flight request resolves to Err(_)
ChunkErr(k) ==
    /\ pc = "joining"
    /\ results[k] = Pending
    /\ results' = [results EXCEPT ![k] = ErrResponse]
    /\ completion_order' = Append(completion_order, k)
    /\ UNCHANGED <<command, pc, mint_accounts, metadata_pubkeys, futures,
                   metadata_accounts, metadata_out, mints_with_exts, ext_out>>

\* join_all has every result: flat_map, collect, Ok(all_accounts)
Collect ==
    /\ pc = "joining"
    /\ \A k \in 1..Len(results) : results[k] # Pending
    /\ metadata_accounts' = CollectAccounts(results)
    /\ pc' = "fetched"
    /\ UNCHANGED <<command, mint_accounts, metadata_pubkeys, futures, results,
                   completion_order, metadata_out, mints_with_exts, ext_out>>

\* print_metadata_results(&metadata_pubkeys, &metadata_accounts); Ok(())
PrintMetadata ==
    /\ pc = "fetched"
    /\ metadata_out' = print_metadata_results(metadata_pubkeys, metadata_accounts)
    /\ pc' = "done"
    /\ UNCHANGED <<command, mint_accounts, metadata_pubkeys, futures, results,
                   completion_order, metadata_accounts, mints_with_exts, ext_out>>

\* let mints_with_exts = filter_mints_with_extensions(&accounts)
FilterMints ==
    /\ pc = "scanned"
    /\ command = "GetTokensWithExtensions"
    /\ mints_with_exts' = filter_mints_with_extensions(mint_accounts)
    /\ pc' = "filtered"
    /\ UNCHANGED <<command, mint_accounts, metadata_pubkeys, futures, results,
                   completion_order, metadata_accounts, metadata_out, ext_out>>

NoneFoundLine == [mint |-> NoKey, names |-> <<"No mint accounts with token extensions found.">>]

\* the if/else that ends the extensions command; Ok(())
PrintExtensions ==
    /\ pc = "filtered"
    /\ ext_out' = IF Len(mints_with_exts) = 0 THEN <<NoneFoundLine>>
                  ELSE mints_with_exts
    /\ pc' = "done"
    /\ UNCHANGED <<command, mint_accounts, metadata_pubkeys, futures, results,
                   completion_order, metadata_accounts, metadata_out, mints_with_exts>>

Next ==
    \/ ScanOk
    \/ ScanErr
    \/ DerivePdas
    \/ DerivePanic
    \/ IssueRequests
    \/ \E k \in 1..Len(results) : ChunkOk(k)
    \/ \E k \in 1..Len(results) : ChunkErr(k)
    \/ Collect
    \/ PrintMetadata
    \/ FilterMints
    \/ PrintExtensions

Spec == Init /\ [][Next]_vars

----------------------------------------------------------------------------
(* Properties *)

Fetched == pc \in {"fetched", "done"} /\ command = "GetTokensWithMetadataAccount"

\* The chunk that input index i belongs to, and its position in it.
ChunkOf(i) == ((i - 1) \div ChunkSize) + 1
PosInChunk(i) == ((i - 1) % ChunkSize) + 1

\* The slot the fetch owes to input index i.
OwedSlot(i) ==
    IF results[ChunkOf(i)].status = "err" THEN None
    ELSE MetadataAccountAt(metadata_pubkeys[i])

\* C1: fetch_metadata_accounts returns exactly as many slots as it was given
\* addresses, whatever the length and whichever chunk requests fail.
C1_ExactlyNSlots ==
    Fetched => Len(metadata_accounts) = Len(metadata_pubkeys)

\* C2: for every input index i, output slot i exists and holds the data
\* source's answer for address i, or None when the chunk of i failed,
\* in whatever order the requests resolved.
C2_SlotHoldsAnswer ==
    Fetched =>
        \A i \in 1..Len(metadata_pubkeys) :
            /\ i <= Len(metadata_accounts)
            /\ metadata_accounts[i] = OwedSlot(i)

\* C2 witness: three chunks resolved out of order, the first failed and the
\* second succeeded, and the result has been assembled.
C2_Witness ==
    /\ pc = "fetched"
    /\ Len(results) = 3
    /\ completion_order[1] = 3
    /\ results[1].status = "err"
    /\ results[2].status = "ok"

\* C3: a failed chunk turns the slots of that chunk, and no other slot, into
\* None; the slots of successful chunks keep the answers; the fetch does not
\* fail.
C3_FailureConfinedToChunk ==
    /\ Len(futures) > 0 => pc # "failed"
    /\ Fetched =>
          \A j \in 1..Len(metadata_accounts) :
              /\ j <= Len(metadata_pubkeys)
              /\ metadata_accounts[j] = OwedSlot(j)

\* C4: the requests are the consecutive chunks of at most 100 addresses,
\* ceil(n/100) of them: 100 addresses make 1 request, 101 make 2 of sizes
\* 100 and 1, and every address is in exactly one request.
C4_Chunking ==
    pc \in {"joining", "fetched", "done"} =>
        LET n == Len(metadata_pubkeys) IN
        /\ Len(futures) = (n + 99) \div 100
        /\ \A k \in 1..Len(futures) :
              /\ Len(futures[k]) >= 1
              /\ Len(futures[k]) <= 100
              /\ Len(futures[k]) = Min(100, n - (k - 1) * 100)
        /\ \A i \in 1..n :
              /\ ChunkOf(i) <= Len(futures)
              /\ PosInChunk(i) <= Len(futures[ChunkOf(i)])
              /\ futures[ChunkOf(i)][PosInChunk(i)] = metadata_pubkeys[i]
        /\ n = 100 => Len(futures) = 1
        /\ n = 101 => Len(futures) = 2 /\ Len(futures[1]) = 100 /\ Len(futures[2]) = 1

\* C4 witness: 101 addresses have been split and their requests issued.
C4_Witness ==
    /\ pc = "joining"
    /\ Len(metadata_pubkeys) = 101
    /\ Len(futures) = 2

PairPrintedFor(pda) ==
    \E j \in 1..Len(metadata_out) :
        metadata_out[j].line = "pair" /\ metadata_out[j].pda = pda

\* C5: a fetched record with zero lamports, or empty data, or owned by the
\* system program, never produces a pair, whatever its data; a missing slot
\* produces none either, and the command completes.
C5_DeadNeverReported ==
    pc = "done" =>
        \A i \in 1..Min(Len(metadata_pubkeys), Len(metadata_accounts)) :
            LET slot == metadata_accounts[i] IN
            (\/ slot = None
             \/ slot[1].lamports = 0
             \/ slot[1].data.layout = "empty"
             \/ slot[1].owner = SYSTEM_PROGRAM_ID)
            => ~PairPrintedFor(metadata_pubkeys[i])

\* C5 witness: the print ran over a zero-lamport record whose data decodes as
\* metadata, over a missing slot and over a record that was reported.
C5_Witness ==
    /\ pc = "done"
    /\ \E i \in 1..Len(metadata_accounts) :
          /\ metadata_accounts[i] # None
          /\ metadata_accounts[i][1].lamports = 0
          /\ safe_deserialize(metadata_accounts[i][1].data).ok
    /\ \E i \in 1..Len(metadata_pubkeys) : metadata_accounts[i] = None
    /\ \E j \in 1..Len(metadata_out) : metadata_out[j].line = "pair"

\* C6: the mint of every emitted pair is the scanned mint from which the
\* pair's metadata address was derived.
C6_PairedWithSourceMint ==
    pc = "done" =>
        \A j \in 1..Len(metadata_out) :
            metadata_out[j].line = "pair" =>
                \E i \in 1..Len(metadata_pubkeys) :
                    /\ metadata_pubkeys[i] = metadata_out[j].pda
                    /\ mint_accounts[i].pubkey = metadata_out[j].mint

\* The input records that decode as a mint with at least one extension.
Qualifying ==
    {i \in 1..Len(mint_accounts) :
        LET st == unpack(mint_accounts[i].account.data)
        IN st.ok /\ get_extension_types(st).ok
                 /\ Len(get_extension_types(st).types) > 0}

\* C7: the result has, in input order, one entry per input record that
\* decodes as a mint with at least one extension, with that record's address
\* and the names of its tags in encounter order; no other record adds or
\* changes an entry.
C7_FilterExact ==
    (pc \in {"filtered", "done"} /\ command = "GetTokensWithExtensions") =>
        LET Q == Qualifying IN
        /\ Len(mints_with_exts) = Cardinality(Q)
        /\ \A i \in Q :
              LET k == Cardinality({q \in Q : q <= i})
                  tags == get_extension_types(unpack(mint_accounts[i].account.data)).types
              IN /\ k <= Len(mints_with_exts)
                 /\ mints_with_exts[k].mint = mint_accounts[i].pubkey
                 /\ mints_with_exts[k].names =
                       [j \in 1..Len(tags) |-> ExtensionTypeName(tags[j])]

\* C7 witness: the filter ran over a list with an undecodable record, a mint
\* without extensions, a mint with a truncated extension and a mint with the
\* extensions 3 and 7, and reported the last one.
C7_Witness ==
    /\ pc = "filtered"
    /\ \E i \in 1..Len(mint_accounts) : ~unpack(mint_accounts[i].account.data).ok
    /\ \E i \in 1..Len(mint_accounts) :
          /\ unpack(mint_accounts[i].account.data).ok
          /\ Len(mint_accounts[i].account.data.tlv) = 0
    /\ \E i \in 1..Len(mint_accounts) :
          /\ unpack(mint_accounts[i].account.data).ok
          /\ ~get_extension_types(unpack(mint_accounts[i].account.data)).ok
    /\ \E k \in 1..Len(mints_with_exts) :
          mints_with_exts[k].names = <<"MintCloseAuthority", "ImmutableOwner">>

\* C9: a scanned record that does not decode as a mint is not treated as
\* one: it gets no extension entry, no metadata address is derived or
\* requested for it, and it yields no pair.
C9_UndecodableDiscarded ==
    \A i \in 1..Len(mint_accounts) :
        ~unpack(mint_accounts[i].account.data).ok =>
            LET pda == derive_metadata_pda(mint_accounts[i].pubkey) IN
            /\ \A k \in 1..Len(mints_with_exts) :
                  mints_with_exts[k].mint # mint_accounts[i].pubkey
            /\ \A j \in 1..Len(metadata_pubkeys) : metadata_pubkeys[j] # pda
            /\ \A c \in 1..Len(futures) : \A j \in 1..Len(futures[c]) : futures[c][j] # pda
            /\ ~PairPrintedFor(pda)

\* C10: when one scanned mint has no valid bump seed, the process does not
\* abort and the metadata address of every other scanned mint is derived.
C10_NoBumpIsPerAddress ==
    (/\ command = "GetTokensWithMetadataAccount"
     /\ pc \notin {"start", "scanned", "failed"}
     /\ ~AllBumpsFound) =>
        /\ pc # "panicked"
        /\ \A i \in 1..Len(mint_accounts) :
              find_pda(mint_accounts[i].pubkey).found =>
                  \E j \in 1..Len(metadata_pubkeys) :
                      metadata_pubkeys[j] = derive_metadata_pda(mint_accounts[i].pubkey)

====
